---- MODULE Spec2Model ----
(***************************************************************************)
(* Model of pkg/ccl/sqlproxyccl/backend_dialer.go: BackendDial opens a TCP *)
(* connection to a backend SQL server, optionally upgrades it to TLS with  *)
(* the PostgreSQL SSLRequest exchange (sslOverlay) and forwards the        *)
(* startup message (relayStartupMsg).                                      *)
(*                                                                         *)
(* Each BackendDial call is a process whose position is pc[c]; the network *)
(* and the backend are the environment, which decides the outcome of every *)
(* I/O operation (dial, write, read, handshake).                           *)
(***************************************************************************)
EXTENDS Integers, Sequences, FiniteSets, TLC

\* ------------------------------------------------------------------ bounds
\* Largest number of parameter bytes in a startup message.
MaxParams == 1

\* The concurrent BackendDial invocations.
Calls == {"a", "b"}

\* --------------------------------------------------------------- constants
\* Error codes of the proxy (error.go); the specification calls them
\* BackendUnreachable and BackendRefusedTLS.
codeBackendDown == "codeBackendDown"
codeBackendRefusedTLS == "codeBackendRefusedTLS"

\* The SSLRequest message: length 8 and the SSL request code, two int32.
pgSSLRequest == <<8, 80877103>>
\* 'S': the backend accepts the TLS upgrade.
pgAcceptSSLRequest == 83

\* ------------------------------------------------------------ input domains
Addresses == {"10.0.0.1:26257", "10.0.0.2:26257"}
\* tlsConfig argument: a nil pointer or a pointer to the caller's config.
NilConfig == 0
\* The caller's tls.Config object, shared by all calls.
CallerConfig == 1
TLSConfigs == {NilConfig, CallerConfig}
\* The content of the caller's tls.Config.
CallerConfigValue == [ServerName |-> "backend", InsecureSkipVerify |-> FALSE]
ParamSeqs == UNION {[1..n -> {7}] : n \in 0..MaxParams}
StartupMessages == [ProtocolVersion : {3}, Parameters : ParamSeqs]

\* Outcomes the environment can produce.
DialErrors == {"i/o timeout", "connection refused"}
WriteErrors == {"broken pipe"}
ReadErrors == {"EOF", "connection reset by peer"}
HandshakeErrors == {"tls: handshake failure"}
\* Bytes a backend may answer to the SSLRequest: 'S', 'N', 'E'.
ResponseBytes == {83, 78, 69}

\* ------------------------------------------------------------------ values
NilErr == [code |-> "nil", format |-> "", args |-> <<>>]
NilConn == [kind |-> "nil", id |-> 0, handshake |-> "none", cfg |-> NilConfig]
\* Variant: every connection refers to the first transport.
TCPConnFirst(t) == [kind |-> "tcp", id |-> 1, handshake |-> "none", cfg |-> NilConfig]

TCPConn(t) == [kind |-> "tcp", id |-> t, handshake |-> "none", cfg |-> NilConfig]

\* newErrorf(code, format, args...) builds a coded error from a format string
\* and its arguments.
newErrorf(code, format, args) == [code |-> code, format |-> format, args |-> args]

\* binary.Write(conn, binary.BigEndian, v) for one int32: four bytes, most
\* significant first.
BigEndian32(x) ==
  <<(x \div 16777216) % 256, (x \div 65536) % 256, (x \div 256) % 256, x % 256>>

RECURSIVE BigEndian(_)
BigEndian(xs) ==
  IF xs = <<>> THEN <<>> ELSE BigEndian32(Head(xs)) \o BigEndian(Tail(xs))

\* msg.Encode(nil): the message length, the protocol version, the parameters
\* and a terminating zero.
Encode(m) ==
  <<Len(m.Parameters) + 3, m.ProtocolVersion>> \o m.Parameters \o <<0>>

Prefix(s, n) == SubSeq(s, 1, n)

VARIABLES
  pc,            \* position of each call in BackendDial
  msg,           \* argument msg
  serverAddress, \* argument serverAddress
  tlsConfig,     \* argument tlsConfig
  conn,          \* local variable conn of BackendDial
  deferred,      \* whether the deferred cleanup has been registered
  ret,           \* operands of the return statement: [conn, err]
  result,        \* what the caller observes when the call has ended
  transports,    \* every transport connection ever opened
  configs,       \* every tls.Config object, by pointer; configs[1] is the caller's
  log            \* operations each call performed, in order

vars == <<pc, msg, serverAddress, tlsConfig, conn, deferred, ret, result,
          transports, configs, log>>

NoResult == [kind |-> "none", conn |-> NilConn, err |-> NilErr]

Init ==
  /\ pc = [c \in Calls |-> "idle"]
  /\ msg = [c \in Calls |-> [ProtocolVersion |-> 3, Parameters |-> <<>>]]
  /\ serverAddress = [c \in Calls |-> ""]
  /\ tlsConfig = [c \in Calls |-> NilConfig]
  /\ conn = [c \in Calls |-> NilConn]
  /\ deferred = [c \in Calls |-> FALSE]
  /\ ret = [c \in Calls |-> [conn |-> NilConn, err |-> NilErr]]
  /\ result = [c \in Calls |-> NoResult]
  /\ transports = <<>>
  /\ configs = <<CallerConfigValue>>
  /\ log = [c \in Calls |-> <<>>]

\* The caller invokes BackendDial(msg, serverAddress, tlsConfig).
CallBackendDial(c) ==
  /\ pc[c] = "idle"
  /\ \E m \in StartupMessages, a \in Addresses, cfg \in TLSConfigs :
       /\ msg' = [msg EXCEPT ![c] = m]
       /\ serverAddress' = [serverAddress EXCEPT ![c] = a]
       /\ tlsConfig' = [tlsConfig EXCEPT ![c] = cfg]
  /\ pc' = [pc EXCEPT ![c] = "dial"]
  /\ UNCHANGED <<conn, deferred, ret, result, transports, configs, log>>

\* ------------------------------------------------------------ environment
Logged(c, op, t, ok, b) ==
  log' = [log EXCEPT ![c] = Append(@, [op |-> op, t |-> t, ok |-> ok, b |-> b])]

\* A write of the first n bytes of data reaches the backend on layer l.
Sent(t, l, data, n) ==
  [transports EXCEPT ![t].wire = Append(@, [layer |-> l, data |-> Prefix(data, n)])]

\* net.Conn.Close on a TCP connection, tls.Conn.Close on a TLS connection:
\* the transport is released; a TLS connection whose handshake completed
\* first sends its close_notify alert.
Close(cn) ==
  LET t == cn.id
      alerted == IF cn.kind = "tls" /\ cn.handshake = "complete"
                 THEN Sent(t, "alert", <<>>, 0) ELSE transports
  IN  [alerted EXCEPT ![t].open = FALSE, ![t].closes = @ + 1]

\* ----------------------------------------------------------- BackendDial
\* Variant: the dial error is not passed to the format.
DialFailureNoCause(e) ==
  [conn |-> NilConn,
   err |-> newErrorf(codeBackendDown, "unable to reach backend SQL server", <<>>)]

\* return nil, newErrorf(codeBackendDown, "unable to reach ...", err)
DialFailure(e) ==
  [conn |-> NilConn,
   err |-> newErrorf(codeBackendDown, "unable to reach backend SQL server: %v", <<e>>)]

\* Variant: the dial has no timeout; a dial to an address that never answers
\* does not return.
DialNoTimeout(c) ==
  LET t == Len(transports) + 1 IN
  /\ pc[c] = "dial"
  /\ serverAddress[c] # "10.0.0.2:26257"
  /\ transports' = Append(transports,
       [addr |-> serverAddress[c], open |-> TRUE, closes |-> 0,
        wire |-> <<>>, rd |-> 0])
  /\ conn' = [conn EXCEPT ![c] = TCPConn(t)]
  /\ deferred' = [deferred EXCEPT ![c] = TRUE]
  /\ pc' = [pc EXCEPT ![c] = "sslOverlay"]
  /\ Logged(c, "dial", t, TRUE, -1)
  /\ UNCHANGED <<ret, msg, serverAddress, tlsConfig, configs, result>>

\* conn, err := net.DialTimeout("tcp", serverAddress, time.Second*5), the
\* error return, and the registration of the deferred cleanup.
DialTimeout(c) ==
  /\ pc[c] = "dial"
  /\ \/ \* the connection is established
        LET t == Len(transports) + 1 IN
        /\ transports' = Append(transports,
             [addr |-> serverAddress[c], open |-> TRUE, closes |-> 0,
              wire |-> <<>>, rd |-> 0])
        /\ conn' = [conn EXCEPT ![c] = TCPConn(t)]
        /\ deferred' = [deferred EXCEPT ![c] = TRUE]
        /\ pc' = [pc EXCEPT ![c] = "sslOverlay"]
        /\ Logged(c, "dial", t, TRUE, -1)
        /\ UNCHANGED ret
     \/ \* timeout, unreachable or refused address
        \E e \in DialErrors :
          /\ ret' = [ret EXCEPT ![c] = DialFailure(e)]
          /\ pc' = [pc EXCEPT ![c] = "return"]
          /\ Logged(c, "dial", 0, FALSE, -1)
          /\ UNCHANGED <<conn, deferred, transports>>
  /\ UNCHANGED <<msg, serverAddress, tlsConfig, configs, result>>

\* ------------------------------------------------------------- sslOverlay
\* Variant: the nil check on the TLS configuration is missing.
NoOverlayNever(cfg) == cfg \notin TLSConfigs

\* if tlsConfig == nil
NoOverlay(cfg) == cfg = NilConfig

\* return nil, newErrorf(codeBackendDown, "sending SSLRequest ...", err)
SSLRequestFailure(e) ==
  [conn |-> NilConn,
   err |-> newErrorf(codeBackendDown, "sending SSLRequest to target server: %v", <<e>>)]

\* return nil, newErrorf(codeBackendDown, "reading response to SSLRequest")
ReadFailure(e) ==
  [conn |-> NilConn,
   err |-> newErrorf(codeBackendDown, "reading response to SSLRequest", <<>>)]

\* return nil, newErrorf(codeBackendRefusedTLS, "target server refused ...")
Refused ==
  [conn |-> NilConn,
   err |-> newErrorf(codeBackendRefusedTLS, "target server refused TLS connection", <<>>)]

\* Variant: the response byte is compared with 'N' instead of 'S'.
AcceptedN(b) == b = 78

\* Variant: the response byte is not compared with the accept code.
AcceptedAlways(b) == b \in ResponseBytes

\* response[0] != pgAcceptSSLRequest
Accepted(b) == b = pgAcceptSSLRequest

\* tlsConfig.Clone(): a new tls.Config object with the content of p.
Clone(p) == Append(configs, configs[p])

\* Variant: the TLS client is given the caller's configuration.
outCfgShared(p) == p

\* outCfg := tlsConfig.Clone(): the pointer to the new object.
outCfg(p) == Len(configs) + 1

\* outCfg := tlsConfig.Clone(); return tls.Client(conn, outCfg), nil
\* tls.Client wraps the transport; the handshake has not run yet.
TLSClient(cn, cfg) ==
  [conn |-> [kind |-> "tls", id |-> cn.id, handshake |-> "pending", cfg |-> cfg],
   err |-> NilErr]

\* Variant: a failed negotiation is tried again on the same connection.
OverlayReturnsRetry(c, r) ==
  /\ IF r.err # NilErr /\ Len(log[c]) < 4
     THEN /\ pc' = [pc EXCEPT ![c] = "sslOverlay"]
          /\ UNCHANGED <<conn, ret>>
     ELSE /\ conn' = [conn EXCEPT ![c] = r.conn]
          /\ IF r.err # NilErr
             THEN /\ ret' = [ret EXCEPT ![c] = [conn |-> NilConn, err |-> r.err]]
                  /\ pc' = [pc EXCEPT ![c] = "return"]
             ELSE /\ pc' = [pc EXCEPT ![c] = "relay"]
                  /\ UNCHANGED ret

\* conn, err = sslOverlay(conn, tlsConfig); if err != nil { return nil, err }
\* r is what sslOverlay returned.
OverlayReturns(c, r) ==
  /\ conn' = [conn EXCEPT ![c] = r.conn]
  /\ IF r.err # NilErr
     THEN /\ ret' = [ret EXCEPT ![c] = [conn |-> NilConn, err |-> r.err]]
          /\ pc' = [pc EXCEPT ![c] = "return"]
     ELSE /\ pc' = [pc EXCEPT ![c] = "relay"]
          /\ UNCHANGED ret

\* sslOverlay without a TLS configuration: the connection comes back as is.
SslOverlaySkip(c) ==
  /\ pc[c] = "sslOverlay"
  /\ NoOverlay(tlsConfig[c])
  /\ OverlayReturns(c, [conn |-> conn[c], err |-> NilErr])
  /\ UNCHANGED <<msg, serverAddress, tlsConfig, configs, deferred, result, transports, log>>

\* binary.Write(conn, binary.BigEndian, pgSSLRequest)
SendSSLRequest(c) ==
  LET t == conn[c].id
      req == BigEndian(pgSSLRequest) IN
  /\ pc[c] = "sslOverlay"
  /\ ~NoOverlay(tlsConfig[c])
  /\ \/ /\ transports' = Sent(t, "plain", req, Len(req))
        /\ pc' = [pc EXCEPT ![c] = "readResponse"]
        /\ Logged(c, "sslreq", t, TRUE, -1)
        /\ UNCHANGED <<conn, ret>>
     \/ \E e \in WriteErrors, n \in {0, 4} :
          /\ transports' = IF n = 0 THEN transports ELSE Sent(t, "plain", req, n)
          /\ OverlayReturns(c, SSLRequestFailure(e))
          /\ Logged(c, "sslreq", t, FALSE, -1)
  /\ UNCHANGED <<msg, serverAddress, tlsConfig, configs, deferred, result>>

\* io.ReadFull(conn, response) for the one response byte, the comparison
\* with pgAcceptSSLRequest and the construction of the TLS client.
ReadResponse(c) ==
  LET t == conn[c].id IN
  /\ pc[c] = "readResponse"
  /\ \/ \E e \in ReadErrors :
          /\ OverlayReturns(c, ReadFailure(e))
          /\ Logged(c, "read", t, FALSE, -1)
          /\ UNCHANGED <<transports, configs>>
     \/ \E b \in ResponseBytes :
          /\ transports' = [transports EXCEPT ![t].rd = @ + 1]
          /\ Logged(c, "read", t, TRUE, b)
          /\ IF Accepted(b)
             THEN /\ configs' = Clone(tlsConfig[c])
                  /\ OverlayReturns(c, TLSClient(conn[c], outCfg(tlsConfig[c])))
             ELSE /\ OverlayReturns(c, Refused)
                  /\ UNCHANGED configs
  /\ UNCHANGED <<msg, serverAddress, tlsConfig, deferred, result>>

\* -------------------------------------------------------- relayStartupMsg
\* Variant: the error of the write is dropped.
relayStartupMsgSwallowed(writeErr) == "nil"

\* _, err = conn.Write(msg.Encode(nil)); return
relayStartupMsg(writeErr) == writeErr

\* Variant: the relay error leaves out the target address.
RelayFailureNoAddr(addr, e) ==
  [conn |-> NilConn,
   err |-> newErrorf(codeBackendDown,
                     "relaying StartupMessage to target server: %v", <<e>>)]

\* return nil, newErrorf(codeBackendDown, "relaying StartupMessage ...",
\*                       serverAddress, err)
RelayFailure(addr, e) ==
  [conn |-> NilConn,
   err |-> newErrorf(codeBackendDown,
                     "relaying StartupMessage to target server %v: %v", <<addr, e>>)]

\* err = relayStartupMsg(conn, msg) and the two returns that follow it;
\* e is the error of conn.Write, "nil" for none.
RelayReturns(c, e) ==
  /\ ret' = [ret EXCEPT ![c] =
       IF relayStartupMsg(e) # "nil"
       THEN RelayFailure(serverAddress[c], relayStartupMsg(e))
       ELSE [conn |-> conn[c], err |-> NilErr]]
  /\ pc' = [pc EXCEPT ![c] = "return"]

\* The first Write on a tls.Conn runs the client handshake before any
\* application data is sent; a failed handshake is the error of that Write.
Handshake(c) ==
  LET t == conn[c].id IN
  /\ pc[c] = "relay"
  /\ conn[c].kind = "tls"
  /\ conn[c].handshake = "pending"
  /\ \/ /\ conn' = [conn EXCEPT ![c].handshake = "complete"]
        /\ transports' = Sent(t, "handshake", <<>>, 0)
        /\ Logged(c, "handshake", t, TRUE, -1)
        /\ UNCHANGED <<pc, ret>>
     \/ \E e \in HandshakeErrors, hello \in BOOLEAN :
          /\ conn' = [conn EXCEPT ![c].handshake = "failed"]
          /\ transports' = IF hello THEN Sent(t, "handshake", <<>>, 0) ELSE transports
          /\ Logged(c, "handshake", t, FALSE, -1)
          /\ RelayReturns(c, e)
  /\ UNCHANGED <<msg, serverAddress, tlsConfig, configs, deferred, result>>

\* conn.Write(msg.Encode(nil)) once the connection can carry data: on the
\* plain transport, or inside the TLS session.
WriteStartupMsg(c) ==
  LET t == conn[c].id
      data == Encode(msg[c])
      layer == IF conn[c].kind = "tls" THEN "tls" ELSE "plain" IN
  /\ pc[c] = "relay"
  /\ conn[c].kind = "tls" => conn[c].handshake = "complete"
  /\ \/ /\ transports' = Sent(t, layer, data, Len(data))
        /\ Logged(c, "startup", t, TRUE, -1)
        /\ RelayReturns(c, "nil")
     \/ \E e \in WriteErrors, n \in {0, 2} :
          /\ transports' = IF n = 0 THEN transports ELSE Sent(t, layer, data, n)
          /\ Logged(c, "startup", t, FALSE, -1)
          /\ RelayReturns(c, e)
  /\ UNCHANGED <<msg, serverAddress, tlsConfig, configs, conn, deferred, result>>

\* ------------------------------------------------------------ the return
\* Variant: the cleanup tests retErr == nil.
MustCloseInverted(c) == deferred[c] /\ ret[c].err = NilErr

\* defer func() { if retErr != nil { conn.Close() } }()
MustClose(c) == deferred[c] /\ ret[c].err # NilErr

\* The return statement: the deferred cleanup runs, then the caller gets the
\* results.  conn.Close() on a nil interface value panics, and the panic
\* leaves BackendDial instead of the results.
Return(c) ==
  /\ pc[c] = "return"
  /\ pc' = [pc EXCEPT ![c] = "done"]
  /\ IF MustClose(c)
     THEN IF conn[c] = NilConn
          THEN /\ result' = [result EXCEPT ![c] =
                    [kind |-> "panic", conn |-> NilConn, err |-> NilErr]]
               /\ Logged(c, "close", 0, FALSE, -1)
               /\ UNCHANGED transports
          ELSE /\ transports' = Close(conn[c])
               /\ Logged(c, "close", conn[c].id, TRUE, -1)
               /\ result' = [result EXCEPT ![c] =
                    [kind |-> "returned", conn |-> ret[c].conn, err |-> ret[c].err]]
     ELSE /\ result' = [result EXCEPT ![c] =
               [kind |-> "returned", conn |-> ret[c].conn, err |-> ret[c].err]]
          /\ UNCHANGED <<transports, log>>
  /\ UNCHANGED <<msg, serverAddress, tlsConfig, configs, conn, deferred, ret>>

Next ==
  \E c \in Calls :
    \/ CallBackendDial(c)
    \/ DialTimeout(c)
    \/ SslOverlaySkip(c)
    \/ SendSSLRequest(c)
    \/ ReadResponse(c)
    \/ Handshake(c)
    \/ WriteStartupMsg(c)
    \/ Return(c)


\* The steps of a call once it has been made.
Step(c) ==
  \/ DialTimeout(c)
  \/ SslOverlaySkip(c)
  \/ SendSSLRequest(c)
  \/ ReadResponse(c)
  \/ Handshake(c)
  \/ WriteStartupMsg(c)
  \/ Return(c)

Spec == Init /\ [][Next]_vars

\* Every transport operation of a call that was made eventually completes,
\* with success or with an error; the caller need not make the call.
FairSpec == Spec /\ \A c \in Calls : WF_vars(Step(c))

\* ------------------------------------------------------------- vocabulary
Done(c) == pc[c] = "done"
Returned(c) == Done(c) /\ result[c].kind = "returned"
Success(c) == Returned(c) /\ result[c].conn # NilConn /\ result[c].err = NilErr
Steps(c, op) == {i \in DOMAIN log[c] : log[c][i].op = op}
Did(c, op, ok) == \E i \in Steps(c, op) : log[c][i].ok = ok
\* Transports opened by the call.
OpenedBy(c) == {log[c][i].t : i \in {j \in Steps(c, "dial") : log[c][j].ok}}
IsPrefix(s, t) == Len(s) <= Len(t) /\ s = Prefix(t, Len(s))
RelayFormat == "relaying StartupMessage to target server %v: %v"
WithTLS(c) == pc[c] # "idle" /\ tlsConfig[c] # NilConfig
WithoutTLS(c) == pc[c] # "idle" /\ tlsConfig[c] = NilConfig
RefusedByte(c) ==
  \E i \in Steps(c, "read") : log[c][i].ok /\ log[c][i].b # pgAcceptSSLRequest

\* C1: a call that opened its transport and then fails ends with that
\* transport closed and with no connection handed to the caller.
C1_NoLeakOnFailure ==
  \A c \in Calls :
    (Done(c) /\ OpenedBy(c) # {} /\ ~Success(c)) =>
      /\ \A t \in OpenedBy(c) : ~transports[t].open
      /\ result[c].conn = NilConn

\* C2: every call ends either with (connection, nil) or with (nil, error),
\* and in no other way.
C2_ConnXorError ==
  \A c \in Calls :
    Done(c) =>
      /\ result[c].kind = "returned"
      /\ \/ result[c].conn # NilConn /\ result[c].err = NilErr
         \/ result[c].conn = NilConn /\ result[c].err # NilErr

\* C3: a returned connection has had the complete startup payload written
\* to it by this call, successfully and exactly once.
C3_StartupWrittenOnce ==
  \A c \in Calls :
    (Returned(c) /\ result[c].conn # NilConn) =>
      LET cn == result[c].conn
          layer == IF cn.kind = "tls" THEN "tls" ELSE "plain"
          w == transports[cn.id].wire
          full == [layer |-> layer, data |-> Encode(msg[c])] IN
      /\ Cardinality(Steps(c, "startup")) = 1
      /\ \A i \in Steps(c, "startup") : log[c][i].ok /\ log[c][i].t = cn.id
      /\ Cardinality({i \in DOMAIN w : w[i] = full}) = 1
      /\ \A i \in DOMAIN w : w[i].layer = layer /\ w[i].data # <<>> => w[i] = full \/ w[i].data = BigEndian(pgSSLRequest)

C3_Witness ==
  \E c \in Calls : Success(c) /\ result[c].conn.kind = "tls"

\* C4: with a TLS configuration the startup payload is sent only after the
\* SSLRequest was written, the accept byte was read and the handshake
\* completed, never on the plaintext transport, and not at all when the
\* negotiation was refused or failed.
C4_PayloadOnlyAfterHandshake ==
  \A c \in Calls :
    WithTLS(c) =>
      /\ \A i \in Steps(c, "startup") :
           \E j, k, l \in 1..(i - 1) :
             /\ j < k /\ k < l
             /\ log[c][j].op = "sslreq" /\ log[c][j].ok
             /\ log[c][k].op = "read" /\ log[c][k].ok /\ log[c][k].b = pgAcceptSSLRequest
             /\ log[c][l].op = "handshake" /\ log[c][l].ok
      /\ \A t \in OpenedBy(c) : \A i \in DOMAIN transports[t].wire :
           LET r == transports[t].wire[i] IN
           /\ r.layer = "plain" => IsPrefix(r.data, BigEndian(pgSSLRequest))
           /\ r.layer = "tls" => Did(c, "handshake", TRUE)
      /\ (RefusedByte(c) \/ Did(c, "sslreq", FALSE) \/ Did(c, "read", FALSE)
            \/ Did(c, "handshake", FALSE)) =>
           /\ Steps(c, "startup") = {}
           /\ \A t \in OpenedBy(c) : \A i \in DOMAIN transports[t].wire :
                transports[t].wire[i].layer # "tls"

C4_Witness ==
  \E c \in Calls : WithTLS(c) /\ Did(c, "startup", TRUE)

\* C5: with a TLS configuration, a response byte other than the accept code
\* makes the call fail with BackendRefusedTLS and closes the connection.
C5_RefusedTLSReported ==
  \A c \in Calls :
    (Done(c) /\ WithTLS(c) /\ RefusedByte(c)) =>
      /\ Returned(c)
      /\ result[c].conn = NilConn
      /\ result[c].err.code = codeBackendRefusedTLS
      /\ \A t \in OpenedBy(c) : ~transports[t].open

\* C6: with a TLS configuration, a failed SSLRequest write, a failed
\* response read or a stream closed before the response byte makes the call
\* fail with BackendUnreachable, never with a refusal or a success.
C6_NegotiationIOFailureUnreachable ==
  \A c \in Calls :
    (Done(c) /\ WithTLS(c) /\ (Did(c, "sslreq", FALSE) \/ Did(c, "read", FALSE))) =>
      /\ Returned(c)
      /\ result[c].conn = NilConn
      /\ result[c].err.code = codeBackendDown

\* C7: without a TLS configuration there is no negotiation: nothing but the
\* startup payload is written, nothing is read, a successful call has sent
\* exactly the payload and returns the transport the connector opened.
C7_NoTLSNoNegotiation ==
  \A c \in Calls :
    WithoutTLS(c) =>
      /\ Steps(c, "sslreq") = {} /\ Steps(c, "read") = {} /\ Steps(c, "handshake") = {}
      /\ \A t \in OpenedBy(c) :
           LET w == transports[t].wire IN
           /\ transports[t].rd = 0
           /\ Len(w) <= 1
           /\ \A i \in DOMAIN w : w[i].layer = "plain" /\ IsPrefix(w[i].data, Encode(msg[c]))
           /\ Did(c, "startup", TRUE) => w = <<[layer |-> "plain", data |-> Encode(msg[c])]>>
           /\ Returned(c) /\ result[c].conn # NilConn =>
                /\ result[c].conn = TCPConn(t)
                /\ w = <<[layer |-> "plain", data |-> Encode(msg[c])]>>

C7_Witness ==
  \E c \in Calls : WithoutTLS(c) /\ Success(c)

\* C8 as stated: a failed TLS handshake is reported as the library's error
\* and not as a BackendUnreachable startup-relay failure, and the
\* connection is closed.
C8_HandshakeErrorAsIs ==
  \A c \in Calls :
    (Done(c) /\ Did(c, "handshake", FALSE)) =>
      /\ Returned(c)
      /\ result[c].conn = NilConn
      /\ result[c].err # NilErr
      /\ ~(result[c].err.code = codeBackendDown /\ result[c].err.format = RelayFormat)
      /\ \A t \in OpenedBy(c) : ~transports[t].open

\* C8 amended: the handshake runs inside the startup write, so a failed
\* handshake is reported as a BackendUnreachable startup-relay failure that
\* carries the target address and the TLS library's error, no payload byte
\* is sent, and the connection is closed.
C8_HandshakeErrorIsRelayFailure ==
  \A c \in Calls :
    (Done(c) /\ Did(c, "handshake", FALSE)) =>
      /\ Returned(c)
      /\ result[c].conn = NilConn
      /\ result[c].err.code = codeBackendDown
      /\ result[c].err.format = RelayFormat
      /\ \E e \in HandshakeErrors : result[c].err.args = <<serverAddress[c], e>>
      /\ Steps(c, "startup") = {}
      /\ \A t \in OpenedBy(c) : ~transports[t].open

C8_Witness ==
  \E c \in Calls : Done(c) /\ Did(c, "handshake", FALSE)

\* C9: a failed dial ends the call with BackendUnreachable carrying the
\* transport error, with no connection returned or left open and with no
\* later step performed.
C9_DialFailureUnreachable ==
  /\ Len(transports) = Cardinality({c \in Calls : Did(c, "dial", TRUE)})
  /\ \A c \in Calls :
       Did(c, "dial", FALSE) =>
         /\ Len(log[c]) = 1
         /\ OpenedBy(c) = {}
         /\ ~deferred[c] /\ conn[c] = NilConn
         /\ ret[c].conn = NilConn
         /\ ret[c].err.code = codeBackendDown
         /\ \E e \in DialErrors : ret[c].err.args = <<e>>
         /\ Done(c) => Returned(c) /\ result[c].conn = NilConn /\ result[c].err = ret[c].err

C9_Witness ==
  \E c \in Calls : Done(c) /\ Did(c, "dial", FALSE)

\* C10: a failed startup write, with or without TLS, ends the call with
\* BackendUnreachable naming the startup-relay stage, the target address
\* and the write error, and with the connection closed.
C10_RelayFailureUnreachable ==
  \A c \in Calls :
    (Done(c) /\ Did(c, "startup", FALSE)) =>
      /\ Returned(c)
      /\ result[c].conn = NilConn
      /\ result[c].err.code = codeBackendDown
      /\ result[c].err.format = RelayFormat
      /\ \E e \in WriteErrors : result[c].err.args = <<serverAddress[c], e>>
      /\ OpenedBy(c) # {}
      /\ \A t \in OpenedBy(c) : ~transports[t].open /\ transports[t].closes = 1

C10_Witness ==
  \E c, d \in Calls :
    /\ Done(c) /\ Did(c, "startup", FALSE) /\ conn[c].kind = "tls"
    /\ Done(d) /\ Did(d, "startup", FALSE) /\ conn[d].kind = "tcp"

\* Number of steps of the call of kind op with outcome ok.
Count(c, op, ok) == Cardinality({i \in Steps(c, op) : log[c][i].ok = ok})
\* The outcomes the environment gave the call, without transport names.
Outcomes(c) == [i \in DOMAIN log[c] |-> <<log[c][i].op, log[c][i].ok, log[c][i].b>>]

C11_Own ==
  /\ \A c \in Calls :
       /\ Cardinality(OpenedBy(c)) <= 1
       /\ \A i \in DOMAIN log[c] : log[c][i].t # 0 => log[c][i].t \in OpenedBy(c)
       /\ conn[c] # NilConn => conn[c].id \in OpenedBy(c)
       /\ \A t \in OpenedBy(c) :
            /\ transports[t].addr = serverAddress[c]
            /\ transports[t].rd = Count(c, "read", TRUE)
            /\ transports[t].closes = Count(c, "close", TRUE)
            /\ Len(transports[t].wire) >=
                 Count(c, "sslreq", TRUE) + Count(c, "handshake", TRUE) + Count(c, "startup", TRUE)
            /\ Len(transports[t].wire) <=
                 Cardinality(Steps(c, "sslreq") \cup Steps(c, "handshake")
                             \cup Steps(c, "startup") \cup Steps(c, "close"))
  /\ \A c, d \in Calls : c # d =>
       /\ OpenedBy(c) \cap OpenedBy(d) = {}
       /\ (conn[c].kind = "tls" /\ conn[d].kind = "tls") => conn[c].cfg # conn[d].cfg
       /\ (Done(c) /\ Done(d) /\ tlsConfig[c] = tlsConfig[d] /\ Outcomes(c) = Outcomes(d)) =>
            /\ result[c].kind = result[d].kind
            /\ result[c].err.code = result[d].err.code
            /\ result[c].err.format = result[d].err.format
            /\ result[c].conn.kind = result[d].conn.kind

\* A step that is not a step of call c changes neither the state of c nor
\* the transport c opened.
C11_Frame ==
  \A c \in Calls :
    (pc'[c] = pc[c] /\ log'[c] = log[c]) =>
      /\ conn'[c] = conn[c] /\ ret'[c] = ret[c] /\ result'[c] = result[c]
      /\ deferred'[c] = deferred[c]
      /\ \A t \in OpenedBy(c) : transports'[t] = transports[t]

\* C11: interleaved calls share no connection state: each call opens its own
\* transport, writes to, reads from and closes only that transport, and its
\* outcome depends only on what happened on that transport.
C11_NoSharedState == [](C11_Own) /\ [][C11_Frame]_vars

C11_Witness ==
  \E c, d \in Calls :
    /\ c # d /\ serverAddress[c] = serverAddress[d]
    /\ tlsConfig[c] = CallerConfig /\ tlsConfig[d] = CallerConfig
    /\ Success(c) /\ Done(d) /\ ~Success(d) /\ OpenedBy(d) # {}

\* C12: the connection a call opened is closed at most once; a call that
\* fails after opening it has closed it exactly once, and a successful call
\* has not closed it and hands it over open.
C12_ClosedExactlyOnce ==
  \A c \in Calls : \A t \in OpenedBy(c) :
    /\ transports[t].closes <= 1
    /\ (Done(c) /\ ~Success(c)) => transports[t].closes = 1 /\ ~transports[t].open
    /\ Success(c) => transports[t].closes = 0 /\ transports[t].open

\* The state of a call in the terms of the orchestration state machine.
State(c) ==
  CASE pc[c] = "idle" -> "Idle"
    [] pc[c] = "dial" -> "Connecting"
    [] pc[c] \in {"sslOverlay", "readResponse"} ->
         IF tlsConfig[c] # NilConfig THEN "Negotiating" ELSE "Relaying"
    [] pc[c] = "relay" -> "Relaying"
    [] pc[c] = "return" -> IF ret[c].err = NilErr THEN "Ready" ELSE "Failed"
    [] pc[c] = "done" -> IF Success(c) THEN "Ready" ELSE "Failed"

Transitions(c) ==
  {<<"Idle", "Connecting">>, <<"Negotiating", "Relaying">>, <<"Relaying", "Ready">>}
  \cup (IF tlsConfig[c] # NilConfig
        THEN {<<"Connecting", "Negotiating">>} ELSE {<<"Connecting", "Relaying">>})
  \cup {<<s, "Failed">> : s \in {"Idle", "Connecting", "Negotiating", "Relaying"}}

C13_Moves ==
  \A c \in Calls :
    \/ State(c)' = State(c)
    \/ <<State(c), State(c)'>> \in Transitions(c)'

C13_Once ==
  \A c \in Calls :
    /\ Cardinality(Steps(c, "dial")) <= 1
    /\ Cardinality(Steps(c, "sslreq")) <= 1
    /\ Cardinality(Steps(c, "read")) <= 1
    /\ Cardinality(Steps(c, "handshake")) <= 1
    /\ Cardinality(Steps(c, "startup")) <= 1
    /\ State(c) = "Negotiating" => tlsConfig[c] # NilConfig

\* C13: a call moves only Idle -> Connecting -> Negotiating (with a TLS
\* configuration only) -> Relaying -> Ready, or from a non-terminal state to
\* Failed; Ready and Failed are never left, and the call connects, writes
\* the SSLRequest, reads the response and writes the startup message at
\* most once each.
C13_StateMachine == [](C13_Once) /\ [][C13_Moves]_vars

C13_Witness ==
  \E c, d \in Calls :
    /\ State(c) = "Ready" /\ Done(c) /\ tlsConfig[c] # NilConfig
    /\ State(d) = "Failed" /\ Done(d) /\ Did(d, "read", FALSE)

\* C14: when the deferred cleanup runs with a non-nil error, the connection
\* variable it closes is not nil and still refers to the transport the call
\* opened.
C14_CleanupConnNotNil ==
  \A c \in Calls :
    (pc[c] = "return" /\ MustClose(c)) =>
      /\ conn[c] # NilConn
      /\ conn[c].id \in OpenedBy(c)

\* A step whose outcome is a failure: an I/O error, or a response byte that
\* is not the accept code.
FailedStep(c, i) ==
  /\ log[c][i].op # "close"
  /\ \/ ~log[c][i].ok
     \/ log[c][i].op = "read" /\ log[c][i].b # pgAcceptSSLRequest

\* C15: a call succeeds only if every step it performed succeeded, and the
\* first failing step ends the call with an error, no later step being
\* attempted.
C15_NoFailureSwallowed ==
  \A c \in Calls :
    /\ Success(c) =>
         /\ \A i \in DOMAIN log[c] : ~FailedStep(c, i)
         /\ Did(c, "dial", TRUE) /\ Did(c, "startup", TRUE)
         /\ WithTLS(c) => /\ Did(c, "sslreq", TRUE) /\ Did(c, "read", TRUE)
                          /\ Did(c, "handshake", TRUE)
    /\ \A i \in DOMAIN log[c] :
         FailedStep(c, i) =>
           /\ \A j \in DOMAIN log[c] : j > i => log[c][j].op = "close"
           /\ pc[c] \in {"return", "done"}
           /\ ret[c].err # NilErr
           /\ Done(c) => Returned(c) /\ result[c].err # NilErr /\ result[c].conn = NilConn

Range(f) == {f[i] : i \in DOMAIN f}

\* The failure class of a call that did not succeed.
Class(c) ==
  IF RefusedByte(c) THEN "refused"
  ELSE IF Did(c, "handshake", FALSE) \/ Did(c, "startup", FALSE) THEN "relay"
  ELSE "unreachable"

\* C16: every error BackendDial returns carries its stage and the target
\* address, and failures of different classes (unreachable, refused TLS,
\* startup relay failed) give distinguishable errors.
C16_ErrorsCarryStageAndAddress ==
  /\ \A c \in Calls :
       (Done(c) /\ ~Success(c)) =>
         /\ Returned(c)
         /\ result[c].err # NilErr
         /\ result[c].err.format # ""
         /\ serverAddress[c] \in Range(result[c].err.args)
  /\ \A c, d \in Calls :
       (Done(c) /\ Done(d) /\ ~Success(c) /\ ~Success(d) /\ Class(c) # Class(d)) =>
         <<result[c].err.code, result[c].err.format>>
           # <<result[d].err.code, result[d].err.format>>

\* C17: with a TLS configuration the negotiator reads one byte, right after
\* writing the SSLRequest, and decides from it alone: the accept code gives
\* a TLS client, any other byte a refusal after which nothing is read from
\* or written to the backend.
C17_OneResponseByte ==
  \A c \in Calls :
    WithTLS(c) =>
      /\ Cardinality(Steps(c, "read")) <= 1
      /\ \A t \in OpenedBy(c) : transports[t].rd <= 1
      /\ \A i \in Steps(c, "read") :
           /\ i > 1 /\ log[c][i - 1].op = "sslreq" /\ log[c][i - 1].ok
           /\ (log[c][i].ok /\ log[c][i].b = pgAcceptSSLRequest) =>
                /\ conn[c].kind = "tls" /\ conn[c].id = log[c][i].t
                /\ ret[c].err.code # codeBackendRefusedTLS
           /\ (log[c][i].ok /\ log[c][i].b # pgAcceptSSLRequest) =>
                /\ conn[c] = NilConn
                /\ ret[c].err.code = codeBackendRefusedTLS
                /\ \A j \in DOMAIN log[c] : j > i => log[c][j].op = "close" /\ log[c][j].t = 0
                /\ transports[log[c][i].t].rd = 1
                /\ transports[log[c][i].t].wire =
                     <<[layer |-> "plain", data |-> BigEndian(pgSSLRequest)]>>

C17_Witness ==
  \E c, d \in Calls :
    /\ Done(c) /\ RefusedByte(c)
    /\ Did(d, "handshake", TRUE)

\* C18: the caller's TLS configuration keeps its value; every TLS client is
\* built on its own clone, taken once the accept byte has been read.
C18_CallerConfigUnchanged ==
  /\ configs[CallerConfig] = CallerConfigValue
  /\ Len(configs) = 1 + Cardinality({c \in Calls :
        \E i \in Steps(c, "read") : log[c][i].ok /\ log[c][i].b = pgAcceptSSLRequest})
  /\ \A c \in Calls :
       conn[c].kind = "tls" =>
         /\ conn[c].cfg # CallerConfig
         /\ conn[c].cfg \in 2..Len(configs)
         /\ configs[conn[c].cfg] = configs[tlsConfig[c]]
         /\ Did(c, "read", TRUE)

C18_Witness ==
  \E c, d \in Calls :
    /\ c # d
    /\ tlsConfig[c] = CallerConfig /\ tlsConfig[d] = CallerConfig
    /\ Success(c) /\ Done(d) /\ Did(d, "handshake", FALSE)

\* C19: when every transport operation eventually completes, every call
\* that was made eventually ends, Ready or Failed; a call whose backend
\* closes the connection instead of answering the SSLRequest ends Failed.
C19_Terminates ==
  \A c \in Calls :
    /\ (pc[c] # "idle") ~> (Done(c) /\ State(c) \in {"Ready", "Failed"})
    /\ Did(c, "read", FALSE) ~> (Done(c) /\ State(c) = "Failed")

C19_Witness ==
  \E c \in Calls : Done(c) /\ Did(c, "read", FALSE) /\ State(c) = "Failed"
====
